---- MODULE Spec2Model ----
(***************************************************************************)
(* The multi-session orchestration layer of src/web_control_panel.py:      *)
(* the three global maps (session_processes, session_status,               *)
(* session_logs), the sequential runner (flag, queue, loop threads), the   *)
(* per-process log reader threads and the HTTP handlers that drive them.   *)
(* The Flask server runs threaded, so handlers, reader threads and loop    *)
(* threads interleave; a handler or thread is split only where its code    *)
(* blocks (process.wait, queue.get with timeout, readline).                *)
(***************************************************************************)
EXTENDS Integers, Sequences, FiniteSets, TLC

\* ------------------------------------------------------------------ bounds
MaxProcs == 2        \* Popen objects in existence at one time
MaxLoops == 2        \* sequential_worker threads in existence at one time
MaxLogLines == 203   \* lines the workers write in one behaviour
MaxDrains == 1       \* get-logs requests in one behaviour
MaxThreads == 2      \* sequential_worker threads started in one behaviour

\* ------------------------------------------------------- program constants
QueueLimit == 200    \* monitor_session_logs: qsize() > 200
DrainMax == 100      \* get_session_logs: len(temp_logs) < 100
KeepLast == 50       \* get_session_logs: temp_logs[-50:]
FileTail == 50       \* get_session_logs: f.readlines()[-50:]
ResponseMax == 100   \* get_session_logs: logs[-100:]

VARIABLES
    registry,                      \* sessions.json: <<[user, dict, valid]>>
    procs,                         \* the Popen objects, by slot
    session_processes,             \* dict sid -> Popen, in insertion order
    session_status,                \* dict sid -> status string
    session_logs,                  \* dict sid -> queue.Queue of records
    sequential_execution_active,   \* the runner flag
    sequential_queue,              \* queue.Queue of session dicts / None
    loops,                         \* the sequential_worker threads, by slot
    threads,                       \* sequential_worker threads started so far
    stop_req,                      \* the stop / stop-all request in flight
    log_file,                      \* lines of flipkart_automation.log
    clock,                         \* log lines written so far (datetime.now())
    drains,                        \* get-logs requests served so far
    resp,                          \* response returned by the step just taken
    stream                         \* the open /stream subscription and its last iteration

vars == <<registry, procs, session_processes, session_status, session_logs,
          sequential_execution_active, sequential_queue, loops, threads,
          stop_req, log_file, clock, drains, resp, stream>>

Ids == {"A", "B"}
None == "None"
ExitCodes == {0, 1}

\* ------------------------------------------------------------ dict helpers
EmptyDict == [x \in {} |-> 0]
Put(f, k, v) == [x \in (DOMAIN f) \cup {k} |-> IF x = k THEN v ELSE f[x]]
Get(f, k, d) == IF k \in DOMAIN f THEN f[k] ELSE d

\* session_processes keeps Python's dict order (stop_all iterates it).
HasProc(sp, s) == \E i \in 1..Len(sp) : sp[i].sid = s
ProcOf(sp, s) == sp[CHOOSE i \in 1..Len(sp) : sp[i].sid = s].pid
SetProc(sp, s, p) ==
    IF HasProc(sp, s)
    THEN [i \in 1..Len(sp) |-> IF sp[i].sid = s THEN [sid |-> s, pid |-> p] ELSE sp[i]]
    ELSE Append(sp, [sid |-> s, pid |-> p])
DelProc(sp, s) == SelectSeq(sp, LAMBDA e : e.sid # s)

\* ------------------------------------------------------------- responses
NoResp == [op |-> "none", sid |-> None, status |-> "none", code |-> 0, pid |-> 0,
           started |-> <<>>, failed |-> <<>>, total |-> 0, seq_stopped |-> FALSE,
           logs |-> <<>>, session_status |-> "none", sessions |-> <<>>,
           active |-> 0]
Reply(op, sid, status, code) ==
    [NoResp EXCEPT !.op = op, !.sid = sid, !.status = status, !.code = code]

\* --------------------------------------------------------------- processes
\* A slot holding no Popen object (never used, or garbage-collected).
FreeProc == [sid |-> None, alive |-> FALSE, rc |-> 0, by |-> "none", sig |-> FALSE,
             lines |-> 0, reader |-> "done"]

\* subprocess.Popen(cmd, stdout=PIPE, ...): a new live worker for session s.
NewProc(s, by) ==
    [sid |-> s, alive |-> TRUE, rc |-> 0, by |-> by, sig |-> FALSE,
     lines |-> 0, reader |-> "reading"]

FreeSlots(pr) == {p \in DOMAIN pr : pr[p].sid = None}
NextSlot(pr) == CHOOSE p \in FreeSlots(pr) : \A q \in FreeSlots(pr) : p <= q

\* process.poll() is None
Poll(p) == procs[p].alive

\* A Popen object is dropped once it has exited, its reader thread has
\* returned and neither the map, a stop request nor a loop thread holds it.
Referenced(p, sp, sr, lp) ==
    \/ \E i \in 1..Len(sp) : sp[i].pid = p
    \/ sr.pid = p
    \/ \E i \in 1..Len(sr.pending) : sr.pending[i].pid = p
    \/ \E l \in DOMAIN lp : lp[l].pc = "wait" /\ lp[l].pid = p
Kept(pr, sp, sr, lp) ==
    {p \in DOMAIN pr :
        /\ pr[p].sid # None
        /\ pr[p].alive \/ pr[p].reader # "done" \/ Referenced(p, sp, sr, lp)}
\* The objects that remain, in creation order, and every reference to them
\* (slot numbers are the model's object identities, renumbered together).
Collect(pr, sp, sr, lp) ==
    LET K == Kept(pr, sp, sr, lp)
        ren(p) == Cardinality({q \in K : q <= p})
        src(i) == CHOOSE p \in K : ren(p) = i
    IN [procs |-> [i \in DOMAIN pr |-> IF i <= Cardinality(K) THEN pr[src(i)] ELSE FreeProc],
        sp |-> [i \in 1..Len(sp) |-> [sid |-> sp[i].sid, pid |-> ren(sp[i].pid)]],
        sr |-> [sr EXCEPT !.pid = ren(@),
                          !.pending = [i \in 1..Len(@) |->
                                          [sid |-> @[i].sid, pid |-> ren(@[i].pid)]]],
        lp |-> [l \in DOMAIN lp |-> [lp[l] EXCEPT !.pid = ren(@)]]]

\* `if session_id not in session_logs: session_logs[session_id] = queue.Queue()`
InitLogs(logs, s) == IF s \in DOMAIN logs THEN logs ELSE Put(logs, s, <<>>)

\* --------------------------------------------------------- threads' records
\* No subscription.  slept: sleeps since last_check; logs, heartbeat: what the
\* last iteration of the generator has sent.
NoStream == [open |-> FALSE, sid |-> None, slept |-> 0, logs |-> <<>>, heartbeat |-> FALSE]

NoStop == [op |-> "none", pc |-> "none", sid |-> None, pid |-> 0, pending |-> <<>>,
           stopped |-> <<>>, failed |-> <<>>, seq_stopped |-> FALSE]
\* A loop thread: its identity (the tid-th thread started), its position and,
\* while it waits for a worker, the queue entry, session and process in hand.
FreeLoop == [pc |-> "done", sid |-> None, pid |-> 0, tid |-> 0, batch |-> 0]
\* The poison pill, and a session dict queued by the batch-th accepted
\* start-sequential request (each request queues fresh dict objects).
Sentinel == [id |-> None, batch |-> 0]
Entry(s, b) == [id |-> s, batch |-> b]
FreeLoops(lp) == {l \in DOMAIN lp : lp[l].pc = "done"}
\* The thread in slot l returns: the remaining threads, in start order.
LoopExit(lp, l) ==
    LET K == {x \in DOMAIN lp : x # l /\ lp[x].pc # "done"}
        rank(x) == Cardinality({y \in K : y <= x})
    IN [i \in DOMAIN lp |-> IF i <= Cardinality(K)
                            THEN lp[CHOOSE x \in K : rank(x) = i] ELSE FreeLoop]

\* A sessions.json entry: `dict` says that the value stored for the user is a
\* JSON object; `valid` is its 'valid' member (False when it has none).
RegEntry(u, d, v) == [user |-> u, dict |-> d, valid |-> v]

InitState ==
    /\ procs = [p \in 1..MaxProcs |-> FreeProc]
    /\ session_processes = <<>>
    /\ session_status = EmptyDict
    /\ session_logs = EmptyDict
    /\ sequential_execution_active = FALSE
    /\ sequential_queue = <<>>
    /\ loops = [l \in 1..MaxLoops |-> FreeLoop]
    /\ threads = 0
    /\ stop_req = NoStop
    /\ log_file = <<>>
    /\ clock = 0
    /\ drains = 0
    /\ resp = NoResp
    /\ stream = NoStream

Init ==
    /\ registry = << RegEntry("A", TRUE, TRUE), RegEntry("B", TRUE, TRUE),
                     RegEntry("C", TRUE, FALSE) >>
    /\ InitState

\* Any sessions.json with the three users, the value of A and of B being a
\* JSON object marked valid, a JSON object not marked valid, or not a JSON
\* object at all.
EntryKinds(u) == {RegEntry(u, TRUE, TRUE), RegEntry(u, TRUE, FALSE), RegEntry(u, FALSE, FALSE)}
InitList ==
    /\ registry \in {<<a, b, RegEntry("C", TRUE, FALSE)>> :
                         a \in EntryKinds("A"), b \in EntryKinds("B")}
    /\ InitState

\* ------------------------------------------------- list_available_sessions
\* `info.get(...)` raises AttributeError on a value that is not a JSON object,
\* and the exception leaves the list comprehension.
list_available_sessions ==
    IF \E i \in 1..Len(registry) : ~registry[i].dict
    THEN [raised |-> TRUE, value |-> <<>>]
    ELSE [raised |-> FALSE,
          value |-> [i \in 1..Len(registry) |->
                        [user |-> registry[i].user, valid |-> registry[i].valid]]]

\* ------------------------------------------------------- get_all_sessions
\* `session.get('valid', False) and status not in ['running']`
CanStartMut(valid, status) == valid
CanStartAnyMut(valid, status) == status # "running"
CanStart(valid, status) == valid /\ status # "running"

\* The outer `except Exception: return []`; the inner try block cannot raise on
\* the dicts that list_available_sessions builds.
get_all_sessions ==
    LET sessions == list_available_sessions
    IN IF sessions.raised THEN <<>>
       ELSE [i \in 1..Len(sessions.value) |->
               LET session_id == sessions.value[i].user
                   status == Get(session_status, session_id, "stopped")
               IN [id |-> session_id,
                   valid |-> sessions.value[i].valid,
                   status |-> status,
                   can_start |-> CanStart(sessions.value[i].valid, status),
                   can_stop |-> status = "running"]]

\* GET /api/sessions
GetSessions ==
    /\ resp' = [Reply("list", None, "success", 200) EXCEPT
                   !.sessions = get_all_sessions, !.total = Len(get_all_sessions)]
    /\ UNCHANGED <<registry, stream, threads, procs, session_processes, session_status,
                   session_logs, sequential_execution_active, sequential_queue, loops,
                   stop_req, log_file, clock, drains>>

\* ------------------------------------------------------------ start_session
\* `session_status[session_id] = 'error'` of the handlers' `except Exception`
SpawnFailedMut(status, s) == status
SpawnFailed(status, s) == Put(status, s, "error")

\* `session_id in session_processes and session_processes[session_id].poll() is None`
AlreadyRunningMut(s) == HasProc(session_processes, s) /\ ~Poll(ProcOf(session_processes, s))
AlreadyRunning(s) == HasProc(session_processes, s) /\ Poll(ProcOf(session_processes, s))

StartSession(s, ok) ==
    /\ IF AlreadyRunning(s)
       THEN /\ resp' = Reply("start", s, "error", 400)
            /\ UNCHANGED <<procs, session_processes, session_status, session_logs>>
       ELSE IF ok
       THEN /\ FreeSlots(procs) # {}
            /\ LET p == NextSlot(procs)
                   sp == SetProc(session_processes, s, p)
               IN /\ session_processes' = sp
                  /\ procs' = [procs EXCEPT ![p] = NewProc(s, "parallel")]
                  /\ resp' = [Reply("start", s, "success", 200) EXCEPT !.pid = p]
            /\ session_status' = Put(session_status, s, "running")
            /\ session_logs' = InitLogs(session_logs, s)
       ELSE /\ session_status' = SpawnFailed(session_status, s)
            /\ resp' = Reply("start", s, "error", 500)
            /\ UNCHANGED <<procs, session_processes, session_logs>>
    /\ UNCHANGED <<registry, stream, threads, sequential_execution_active, sequential_queue, loops,
                   stop_req, log_file, clock, drains>>

\* ------------------------------------------------------------- the workers
\* The worker exits by itself with a success / failure exit code (a worker
\* that was sent SIGTERM dies of the signal: WorkerKilled).
WorkerExit(p, rc) ==
    /\ procs[p].alive
    /\ ~procs[p].sig
    /\ procs' = [procs EXCEPT ![p].alive = FALSE, ![p].rc = rc, ![p].sig = FALSE]
    /\ resp' = NoResp
    /\ UNCHANGED <<registry, stream, threads, session_processes, session_status, session_logs,
                   sequential_execution_active, sequential_queue, loops, stop_req,
                   log_file, clock, drains>>

\* The worker dies of the SIGTERM that process.terminate() sent it.
WorkerKilled(p) ==
    /\ procs[p].alive
    /\ procs[p].sig
    /\ procs' = [procs EXCEPT ![p].alive = FALSE, ![p].rc = -15, ![p].sig = FALSE]
    /\ resp' = NoResp
    /\ UNCHANGED <<registry, stream, threads, session_processes, session_status, session_logs,
                   sequential_execution_active, sequential_queue, loops, stop_req,
                   log_file, clock, drains>>

\* ------------------------------------------------------ monitor_session_logs
\* One record as put by the reader: the k-th line of the worker in slot p.
LogRecord(s, p, k) ==
    [timestamp |-> clock + 1, message |-> <<p, k>>, session_id |-> s]

\* `if qsize() > 200: get_nowait()` and then put(record)
Enqueue(q, rec) == Append(IF Len(q) > QueueLimit THEN Tail(q) ELSE q, rec)

\* The worker writes one line, which the reader thread of process p reads and
\* queues; toFile: the line is a logger line, also appended to the log file.
MonitorLine(p, toFile) ==
    LET s == procs[p].sid
        k == procs[p].lines + 1
    IN /\ procs[p].reader = "reading"
       /\ procs[p].alive
       /\ clock < MaxLogLines
       /\ clock' = clock + 1
       /\ procs' = [procs EXCEPT ![p].lines = k]
       /\ session_logs' = IF s \in DOMAIN session_logs
                          THEN [session_logs EXCEPT ![s] = Enqueue(@, LogRecord(s, p, k))]
                          ELSE session_logs
       /\ log_file' = IF toFile
                      THEN Append(log_file, [file |-> TRUE, message |-> <<p, k>>,
                                             session_id |-> s])
                      ELSE log_file
       /\ resp' = NoResp
       /\ UNCHANGED <<registry, stream, threads, session_processes, session_status,
                      sequential_execution_active, sequential_queue, loops, stop_req,
                      drains>>

\* The inner `except Exception: pass`: an exception raised between the size
\* test and put() is dropped together with the line; the loop goes on.
EnqueueFailed(q) == IF Len(q) > QueueLimit THEN Tail(q) ELSE q

MonitorEnqueueFault(p) ==
    LET s == procs[p].sid
    IN /\ procs[p].reader = "reading"
       /\ procs[p].alive
       /\ s \in DOMAIN session_logs
       /\ clock < MaxLogLines
       /\ clock' = clock + 1
       /\ procs' = [procs EXCEPT ![p].lines = @ + 1]
       /\ session_logs' = [session_logs EXCEPT ![s] = EnqueueFailed(@)]
       /\ resp' = NoResp
       /\ UNCHANGED <<registry, stream, threads, session_processes, session_status,
                      sequential_execution_active, sequential_queue, loops, stop_req,
                      log_file, drains>>

\* 'Error monitoring logs: ...', queued with a plain put()
DiagRecord(s, p) == [timestamp |-> clock + 1, message |-> <<p, 0>>, session_id |-> s]

\* The outer `except Exception`: readline() (or wait()) raises; the state
\* becomes 'error', the diagnostic is queued and the thread ends.  The handle
\* stays in session_processes.
MonitorReadFault(p) ==
    LET s == procs[p].sid
    IN /\ procs[p].reader = "reading"
       /\ clock < MaxLogLines
       /\ clock' = clock + 1
       /\ session_status' = Put(session_status, s, "error")
       /\ session_logs' = IF s \in DOMAIN session_logs
                          THEN [session_logs EXCEPT ![s] = Append(@, DiagRecord(s, p))]
                          ELSE session_logs
       /\ LET n == Collect([procs EXCEPT ![p].reader = "done"], session_processes,
                           stop_req, loops)
          IN /\ procs' = n.procs
             /\ session_processes' = n.sp
             /\ stop_req' = n.sr
             /\ loops' = n.lp
       /\ resp' = NoResp
       /\ UNCHANGED <<registry, stream, threads, sequential_execution_active,
                      sequential_queue, log_file, drains>>

\* End of stream: process.wait(), status from the return code, handle removed.
ExitStatusMut(rc) == "finished"
ExitStatus(rc) == IF rc = 0 THEN "finished" ELSE "error"

MonitorFinish(p) ==
    LET s == procs[p].sid
        sp == DelProc(session_processes, s)
    IN /\ procs[p].reader = "reading"
       /\ ~procs[p].alive
       /\ session_status' = Put(session_status, s, ExitStatus(procs[p].rc))
       /\ LET n == Collect([procs EXCEPT ![p].reader = "done"], sp, stop_req, loops)
          IN /\ procs' = n.procs
             /\ session_processes' = n.sp
             /\ stop_req' = n.sr
             /\ loops' = n.lp
       /\ resp' = NoResp
       /\ UNCHANGED <<registry, stream, threads, session_logs, sequential_execution_active,
                      sequential_queue, log_file, clock, drains>>

\* ------------------------------------------------------------- stop_session
\* Up to the blocking process.wait(timeout=10); the whole handler when the
\* session has no handle or its process has exited already.
StopSession(s) ==
    /\ stop_req.op = "none"
    /\ IF HasProc(session_processes, s) /\ Poll(ProcOf(session_processes, s))
       THEN /\ procs' = [procs EXCEPT ![ProcOf(session_processes, s)].sig = TRUE]
            /\ stop_req' = [NoStop EXCEPT !.op = "stop", !.pc = "wait", !.sid = s,
                                          !.pid = ProcOf(session_processes, s)]
            /\ resp' = NoResp
            /\ UNCHANGED <<session_processes, session_status>>
       ELSE /\ session_processes' = DelProc(session_processes, s)
            /\ session_status' = Put(session_status, s, "stopped")
            /\ resp' = Reply("stop", s, "success", 200)
            /\ UNCHANGED <<procs, stop_req>>
    /\ UNCHANGED <<registry, stream, threads, session_logs, sequential_execution_active,
                   sequential_queue, loops, log_file, clock, drains>>

\* wait() returned: `del session_processes[session_id]` (KeyError when a reader
\* or the sequential loop removed the key meanwhile), then state 'stopped'.
StopSessionWaitDone ==
    /\ stop_req.op = "stop"
    /\ ~Poll(stop_req.pid)
    /\ IF HasProc(session_processes, stop_req.sid)
       THEN /\ session_status' = Put(session_status, stop_req.sid, "stopped")
            /\ resp' = Reply("stop", stop_req.sid, "success", 200)
       ELSE /\ resp' = Reply("stop", stop_req.sid, "error", 500)
            /\ UNCHANGED session_status
    /\ LET n == Collect(procs, DelProc(session_processes, stop_req.sid), NoStop, loops)
       IN /\ procs' = n.procs
          /\ session_processes' = n.sp
          /\ stop_req' = n.sr
          /\ loops' = n.lp
    /\ UNCHANGED <<registry, stream, threads, session_logs, sequential_execution_active,
                   sequential_queue, log_file, clock, drains>>

\* wait(timeout=10) raised TimeoutExpired: caught by `except Exception`.
StopSessionTimeout ==
    /\ stop_req.op = "stop"
    /\ Poll(stop_req.pid)
    /\ resp' = Reply("stop", stop_req.sid, "error", 500)
    /\ stop_req' = NoStop
    /\ UNCHANGED <<registry, stream, threads, procs, session_processes, session_status, session_logs,
                   sequential_execution_active, sequential_queue, loops, log_file,
                   clock, drains>>

\* ------------------------------------------------------- start_all_sessions
\* One iteration of `for session in sessions:` on the handler's local state.
StartAllStepMut(st, session, fail) ==
    IF ~session.can_start THEN st
    ELSE IF session.id \in fail
    THEN [st EXCEPT !.failed = Append(@, session.id)]
    ELSE LET p == NextSlot(st.procs)
         IN [st EXCEPT !.procs[p] = NewProc(session.id, "parallel"),
                       !.sp = SetProc(@, session.id, p),
                       !.status = Put(@, session.id, "running"),
                       !.logs = InitLogs(@, session.id),
                       !.started = Append(@, session.id)]
StartAllStep(st, session, fail) ==
    IF ~session.can_start THEN st
    ELSE IF session.id \in fail
    THEN [st EXCEPT !.failed = Append(@, session.id),
                    !.status = SpawnFailed(@, session.id)]
    ELSE LET p == NextSlot(st.procs)
         IN [st EXCEPT !.procs[p] = NewProc(session.id, "parallel"),
                       !.sp = SetProc(@, session.id, p),
                       !.status = Put(@, session.id, "running"),
                       !.logs = InitLogs(@, session.id),
                       !.started = Append(@, session.id)]

RECURSIVE StartAllFrom(_, _, _, _)
StartAllFrom(st, sessions, i, fail) ==
    IF i > Len(sessions) THEN st
    ELSE StartAllFrom(StartAllStep(st, sessions[i], fail), sessions, i + 1, fail)

Startable(sessions) == {sessions[i].id : i \in {j \in 1..Len(sessions) : sessions[j].can_start}}

\* fail: the sessions whose Popen raises.
StartAllSessions(fail) ==
    LET sessions == get_all_sessions
        st0 == [procs |-> procs, sp |-> session_processes, status |-> session_status,
                logs |-> session_logs, started |-> <<>>, failed |-> <<>>]
        st == StartAllFrom(st0, sessions, 1, fail)
    IN /\ fail \subseteq Startable(sessions)
       /\ Cardinality(Startable(sessions) \ fail) <= Cardinality(FreeSlots(procs))
       /\ session_processes' = st.sp
       /\ procs' = st.procs
       /\ session_status' = st.status
       /\ session_logs' = st.logs
       /\ resp' = [Reply("start_all", None, "success", 200) EXCEPT
                      !.started = st.started, !.failed = st.failed,
                      !.total = Cardinality(Startable(sessions))]
       /\ UNCHANGED <<registry, stream, threads, sequential_execution_active, sequential_queue, loops,
                      stop_req, log_file, clock, drains>>

\* ------------------------------------------------- start_all_sessions_sequential
StartableSeq(sessions) ==
    LET idx == SelectSeq([i \in 1..Len(sessions) |-> i], LAMBDA i : sessions[i].can_start)
    IN [k \in 1..Len(idx) |-> sessions[idx[k]].id]

\* `while not sequential_queue.empty(): sequential_queue.get_nowait()`
ClearQueueMut(q) == q
ClearQueue(q) == <<>>

\* `if sequential_execution_active:` of the handler
RunnerBusyMut == sequential_execution_active /\ sequential_queue # <<>>
RunnerBusy == sequential_execution_active

StartSequential ==
    /\ IF RunnerBusy
       THEN /\ resp' = Reply("start_sequential", None, "error", 400)
            /\ UNCHANGED <<sequential_execution_active, sequential_queue, loops, threads>>
       ELSE IF StartableSeq(get_all_sessions) = <<>>
       THEN /\ resp' = Reply("start_sequential", None, "error", 400)
            /\ UNCHANGED <<sequential_execution_active, sequential_queue, loops, threads>>
       ELSE /\ FreeLoops(loops) # {}
            /\ threads < MaxThreads
            /\ threads' = threads + 1
            /\ sequential_queue' =
                  ClearQueue(sequential_queue) \o
                  [k \in 1..Len(StartableSeq(get_all_sessions)) |->
                      Entry(StartableSeq(get_all_sessions)[k], threads + 1)]
            /\ sequential_execution_active' = TRUE
            /\ LET l == CHOOSE x \in FreeLoops(loops) : \A y \in FreeLoops(loops) : x <= y
               IN loops' = [loops EXCEPT ![l] = [FreeLoop EXCEPT !.pc = "check",
                                                                !.tid = threads + 1]]
            /\ resp' = [Reply("start_sequential", None, "success", 200) EXCEPT
                           !.started = StartableSeq(get_all_sessions),
                           !.total = Len(StartableSeq(get_all_sessions))]
    /\ UNCHANGED <<registry, stream, procs, session_processes, session_status, session_logs,
                   stop_req, log_file, clock, drains>>

\* ------------------------------------------------------------ sequential_worker
\* `while sequential_execution_active:`
LoopConditionMut == TRUE
LoopCondition == sequential_execution_active

LoopCheck(l) ==
    /\ loops[l].pc = "check"
    /\ loops' = IF LoopCondition
                THEN [loops EXCEPT ![l].pc = "get"] ELSE LoopExit(loops, l)
    /\ resp' = NoResp
    /\ UNCHANGED <<registry, stream, threads, procs, session_processes, session_status, session_logs,
                   sequential_execution_active, sequential_queue, stop_req, log_file,
                   clock, drains>>

\* `except Exception as e:` of the loop body: the thread stays in the loop.
LoopAfterErrorMut(lp, l) == LoopExit(lp, l)
LoopAfterError(lp, l) == [lp EXCEPT ![l].pc = "check"]

\* sequential_queue.get(timeout=1.0) and, for a session entry, the spawn up to
\* the blocking process.wait(); ok: Popen does not raise.
\* queue.get(timeout=1) returns the OLDEST entry of the queue (queue.Queue is FIFO).
QueueGetMut(q) == q[Len(q)]

QueueGet(q) == Head(q)

LoopGet(l, ok) ==
    /\ loops[l].pc = "get"
    /\ resp' = NoResp
    /\ IF sequential_queue = <<>>
       THEN /\ loops' = [loops EXCEPT ![l].pc = "check"]
            /\ UNCHANGED <<procs, session_processes, session_status, session_logs,
                           sequential_queue>>
       ELSE /\ sequential_queue' = Tail(sequential_queue)
            /\ IF QueueGet(sequential_queue) = Sentinel
               THEN /\ loops' = LoopExit(loops, l)
                    /\ UNCHANGED <<procs, session_processes, session_status, session_logs>>
               ELSE LET s == QueueGet(sequential_queue).id
                    IN IF ok
                       THEN /\ FreeSlots(procs) # {}
                            /\ LET p == NextSlot(procs)
                               IN /\ procs' = [procs EXCEPT ![p] = NewProc(s, "sequential")]
                                  /\ session_processes' = SetProc(session_processes, s, p)
                                  /\ loops' = [loops EXCEPT
                                                  ![l].pc = "wait", ![l].sid = s,
                                                  ![l].pid = p,
                                                  ![l].batch = QueueGet(sequential_queue).batch]
                            /\ session_status' = Put(session_status, s, "running")
                            /\ session_logs' = InitLogs(session_logs, s)
                       ELSE /\ session_status' = SpawnFailed(session_status, s)
                            /\ session_processes' = DelProc(session_processes, s)
                            /\ loops' = LoopAfterError(loops, l)
                            /\ UNCHANGED <<procs, session_logs>>
    /\ UNCHANGED <<registry, stream, threads, sequential_execution_active, stop_req, log_file, clock,
                   drains>>

\* process.wait() returned: status from the return code, handle removed.
LoopWaitDone(l) ==
    LET s == loops[l].sid
        lp == [loops EXCEPT ![l].pc = "check", ![l].sid = None, ![l].pid = 0,
                            ![l].batch = 0]
    IN /\ loops[l].pc = "wait"
       /\ ~Poll(loops[l].pid)
       /\ session_status' = Put(session_status, s, ExitStatus(procs[loops[l].pid].rc))
       /\ LET n == Collect(procs, DelProc(session_processes, s), stop_req, lp)
          IN /\ procs' = n.procs
             /\ session_processes' = n.sp
             /\ stop_req' = n.sr
             /\ loops' = n.lp
       /\ resp' = NoResp
       /\ UNCHANGED <<registry, stream, threads, session_logs, sequential_execution_active,
                      sequential_queue, log_file, clock, drains>>

\* -------------------------------------------------------- stop_all_sessions
\* The handler's loop over list(session_processes.items()) from its current
\* position up to the next blocking wait(timeout=10) or, with nothing left,
\* through session_processes.clear() to the response.
RECURSIVE StopAllAdvance(_)
StopAllAdvance(st) ==
    IF st.pending = <<>>
    THEN [st EXCEPT !.pc = "done"]
    ELSE LET h == Head(st.pending)
         IN IF st.procs[h.pid].alive
            THEN [st EXCEPT !.pc = "wait", !.procs[h.pid].sig = TRUE]
            ELSE StopAllAdvance([st EXCEPT !.pending = Tail(@),
                                           !.stopped = Append(@, h.sid),
                                           !.status = Put(@, h.sid, "stopped")])

\* `session_processes.clear()`
ClearProcessesMut(sp) == sp
ClearProcesses(sp) == <<>>

StopAllCommit(st, seq_stopped) ==
    LET sr == IF st.pc = "done" THEN NoStop
              ELSE [NoStop EXCEPT !.op = "stop_all", !.pc = "wait",
                                  !.pending = st.pending, !.stopped = st.stopped,
                                  !.failed = st.failed, !.seq_stopped = seq_stopped]
        n == Collect(st.procs,
                     IF st.pc = "done" THEN ClearProcesses(session_processes)
                     ELSE session_processes,
                     sr, loops)
    IN /\ procs' = n.procs
       /\ session_processes' = n.sp
       /\ stop_req' = n.sr
       /\ loops' = n.lp
       /\ session_status' = st.status
       /\ resp' = IF st.pc = "done"
                  THEN [Reply("stop_all", None, "success", 200) EXCEPT
                           !.started = st.stopped, !.failed = st.failed,
                           !.seq_stopped = seq_stopped]
                  ELSE NoResp

StopAllSessions ==
    /\ stop_req.op = "none"
    /\ IF sequential_execution_active
       THEN /\ sequential_execution_active' = FALSE
            /\ sequential_queue' = Append(sequential_queue, Sentinel)
       ELSE UNCHANGED <<sequential_execution_active, sequential_queue>>
    /\ StopAllCommit(StopAllAdvance([pc |-> "iter", pending |-> session_processes,
                                     stopped |-> <<>>, failed |-> <<>>,
                                     status |-> session_status, procs |-> procs]),
                     sequential_execution_active)
    /\ UNCHANGED <<registry, stream, threads, session_logs, log_file, clock, drains>>

\* wait(timeout=10) returned for the session at the head of the list.
StopAllWaitDone ==
    LET h == Head(stop_req.pending)
    IN /\ stop_req.op = "stop_all"
       /\ ~Poll(h.pid)
       /\ StopAllCommit(StopAllAdvance([pc |-> "iter", pending |-> Tail(stop_req.pending),
                                        stopped |-> Append(stop_req.stopped, h.sid),
                                        failed |-> stop_req.failed,
                                        status |-> Put(session_status, h.sid, "stopped"),
                                        procs |-> procs]),
                        stop_req.seq_stopped)
       /\ UNCHANGED <<registry, stream, threads, session_logs, sequential_execution_active,
                      sequential_queue, log_file, clock, drains>>

\* wait(timeout=10) raised TimeoutExpired: the session goes to failed_sessions.
StopAllTimeout ==
    LET h == Head(stop_req.pending)
    IN /\ stop_req.op = "stop_all"
       /\ Poll(h.pid)
       /\ StopAllCommit(StopAllAdvance([pc |-> "iter", pending |-> Tail(stop_req.pending),
                                        stopped |-> stop_req.stopped,
                                        failed |-> Append(stop_req.failed, h.sid),
                                        status |-> session_status,
                                        procs |-> procs]),
                        stop_req.seq_stopped)
       /\ UNCHANGED <<registry, stream, threads, session_logs, sequential_execution_active,
                      sequential_queue, log_file, clock, drains>>

\* --------------------------------------------------------- get_session_logs
LastN(q, n) == IF Len(q) <= n THEN q ELSE SubSeq(q, Len(q) - n + 1, Len(q))
FirstN(q, n) == IF Len(q) <= n THEN q ELSE SubSeq(q, 1, n)
RestN(q, n) == IF Len(q) <= n THEN <<>> ELSE SubSeq(q, n + 1, Len(q))

\* `while not empty and len(temp_logs) < 100: get_nowait()`
DrainTaken(q) == FirstN(q, DrainMax)
\* the queue after `for log in temp_logs[-50:]: log_queue.put(log)`
DrainLeft(q) == RestN(q, DrainMax) \o LastN(DrainTaken(q), KeepLast)

GetSessionLogs(s) ==
    LET temp_logs == IF s \in DOMAIN session_logs THEN DrainTaken(session_logs[s]) ELSE <<>>
        logs == temp_logs \o LastN(log_file, FileTail)
    IN /\ session_logs' = IF s \in DOMAIN session_logs
                          THEN [session_logs EXCEPT ![s] = DrainLeft(@)]
                          ELSE session_logs
       /\ drains' = drains + 1
       /\ resp' = [Reply("get_logs", s, "success", 200) EXCEPT
                      !.logs = LastN(logs, ResponseMax),
                      !.session_status = Get(session_status, s, "unknown")]
       /\ UNCHANGED <<registry, stream, threads, procs, session_processes, session_status,
                      sequential_execution_active, sequential_queue, loops, stop_req,
                      log_file, clock>>

\* ------------------------------------------------------------- stream_logs
HeartbeatAfter == 5

\* `time.time() - last_check > 5`: every sleep(1) lasts at least one second and
\* the loop body takes time, so the test succeeds from the fifth sleep on.
HeartbeatDue(slept) == slept >= HeartbeatAfter

\* `while not log_queue.empty(): logs.append(log_queue.get_nowait())`
StreamTaken(s) == IF s \in DOMAIN session_logs THEN session_logs[s] ELSE <<>>
StreamLeft(s) == IF s \in DOMAIN session_logs
                 THEN [session_logs EXCEPT ![s] = <<>>]
                 ELSE session_logs

\* One iteration of generate(): the records taken from the queue are sent,
\* then a heartbeat if one is due, then sleep(1).
StreamIteration(s, slept) ==
    /\ session_logs' = StreamLeft(s)
    /\ stream' = [open |-> TRUE, sid |-> s,
                  slept |-> IF HeartbeatDue(slept) THEN 0 ELSE slept,
                  logs |-> StreamTaken(s),
                  heartbeat |-> HeartbeatDue(slept)]
    /\ resp' = NoResp
    /\ UNCHANGED <<registry, threads, procs, session_processes, session_status,
                   sequential_execution_active, sequential_queue, loops, stop_req,
                   log_file, clock, drains>>

\* GET /api/logs/<s>/stream: last_check = time.time() and the first iteration.
StreamOpen(s) ==
    /\ ~stream.open
    /\ StreamIteration(s, 0)

\* sleep(1) returns and the next iteration runs.
StreamTick ==
    /\ stream.open
    /\ StreamIteration(stream.sid, stream.slept + 1)

\* ------------------------------------------------- health and error handlers
\* GET /api/health
HealthCheck ==
    /\ resp' = [Reply("health", None, "healthy", 200) EXCEPT
                   !.active = Cardinality({s \in DOMAIN session_status :
                                              session_status[s] = "running"}),
                   !.total = Cardinality(DOMAIN session_status)]
    /\ UNCHANGED <<registry, stream, threads, procs, session_processes, session_status,
                   session_logs, sequential_execution_active, sequential_queue, loops,
                   stop_req, log_file, clock, drains>>

\* errorhandler(404) (no such route) and errorhandler(500) / (Exception)
ErrorCodes == {404, 500}

ErrorHandler(code) ==
    /\ resp' = Reply("error_handler", None, "error", code)
    /\ UNCHANGED <<registry, stream, threads, procs, session_processes, session_status,
                   session_logs, sequential_execution_active, sequential_queue, loops,
                   stop_req, log_file, clock, drains>>

\* ------------------------------------------------- run_automation.py (main)
\* `success = automation.run()`: FlipkartAutomation defines run_automation()
\* and no run(), so the attribute lookup raises AttributeError and the
\* automation (whose outcome would be `outcome`) is never entered.
automation_run(outcome) == [raised |-> TRUE, value |-> FALSE]

\* The exit code of `run_automation.py --use-session <id> --yes`:
\* config_found: open(args.config) succeeds (else FileNotFoundError).
main(config_found, outcome) ==
    IF ~config_found THEN 1
    ELSE LET success == automation_run(outcome)
         IN IF success.raised THEN 1
            ELSE IF success.value THEN 0 ELSE 1

\* The worker of slot p runs main to its end.
WorkerRun(p, config_found, outcome) == WorkerExit(p, main(config_found, outcome))

\* ------------------------------------------------------------ specifications
\* The parallel launcher: start / stop / start-all / stop-all requests, the
\* workers and their reader threads.
Next ==
    \/ \E s \in Ids, ok \in BOOLEAN : StartSession(s, ok)
    \/ \E fail \in SUBSET Ids : StartAllSessions(fail)
    \/ \E s \in Ids : StopSession(s)
    \/ StopSessionWaitDone
    \/ StopSessionTimeout
    \/ StopAllSessions
    \/ StopAllWaitDone
    \/ StopAllTimeout
    \/ \E p \in DOMAIN procs, rc \in ExitCodes : WorkerExit(p, rc)
    \/ \E p \in DOMAIN procs : WorkerKilled(p)
    \/ \E p \in DOMAIN procs : MonitorFinish(p)

Spec == Init /\ [][Next]_vars

\* The same, with every reader thread scheduled: a reader whose stream has
\* ended (the worker has exited) eventually runs its epilogue.
SpecFair ==
    /\ Init
    /\ [][Next]_vars
    /\ \A p \in 1..MaxProcs : WF_vars(MonitorFinish(p))

\* The sequential runner: start-sequential and stop-all requests, the loop
\* threads, the workers and their reader threads.
NextSeq ==
    \/ StartSequential
    \/ StopAllSessions
    \/ StopAllWaitDone
    \/ StopAllTimeout
    \/ \E l \in DOMAIN loops : LoopCheck(l)
    \/ \E l \in DOMAIN loops, ok \in BOOLEAN : LoopGet(l, ok)
    \/ \E l \in DOMAIN loops : LoopWaitDone(l)
    \/ \E p \in DOMAIN procs, rc \in ExitCodes : WorkerExit(p, rc)
    \/ \E p \in DOMAIN procs : WorkerKilled(p)
    \/ \E p \in DOMAIN procs : MonitorFinish(p)

SpecSeq == Init /\ [][NextSeq]_vars

\* The same, with every loop thread scheduled: a thread that can take its next
\* step (re-check the flag, return from queue.get or from process.wait)
\* eventually takes it.
SpecSeqFair ==
    /\ Init
    /\ [][NextSeq]_vars
    /\ \A l \in 1..MaxLoops :
          /\ WF_vars(LoopCheck(l))
          /\ WF_vars(\E ok \in BOOLEAN : LoopGet(l, ok))
          /\ WF_vars(LoopWaitDone(l))

\* The log channel of one session: its worker's lines and get-logs requests.
NextLog ==
    \/ StartSession("A", TRUE)
    \/ \E p \in DOMAIN procs : MonitorLine(p, FALSE)
    \/ drains < MaxDrains /\ GetSessionLogs("A")

SpecLog == Init /\ [][NextLog]_vars

\* One streaming subscription on the log channel of session A.
MaxStreamLines == 4

NextStream ==
    \/ StartSession("A", TRUE)
    \/ \E p \in DOMAIN procs : clock < MaxStreamLines /\ MonitorLine(p, FALSE)
    \/ StreamOpen("A")
    \/ StreamTick

SpecStream == Init /\ [][NextStream]_vars

\* The log channel of session A read by a streaming subscription and by
\* get-logs requests.
NextReaders ==
    \/ StartSession("A", TRUE)
    \/ \E p \in DOMAIN procs : clock < MaxStreamLines /\ MonitorLine(p, FALSE)
    \/ StreamOpen("A")
    \/ StreamTick
    \/ drains < MaxDrains /\ GetSessionLogs("A")

SpecReaders == Init /\ [][NextReaders]_vars

\* The log channels of two sessions and the log file their workers share.
NextShared ==
    \/ \E s \in Ids : StartSession(s, TRUE)
    \/ \E p \in DOMAIN procs, toFile \in BOOLEAN :
          clock < MaxStreamLines /\ MonitorLine(p, toFile)
    \/ \E s \in Ids : drains < MaxDrains /\ GetSessionLogs(s)

SpecShared == Init /\ [][NextShared]_vars

\* The reader thread of session A with its faults.
NextReader ==
    \/ StartSession("A", TRUE)
    \/ \E p \in DOMAIN procs : clock < MaxStreamLines /\ MonitorLine(p, FALSE)
    \/ \E p \in DOMAIN procs : clock < MaxStreamLines /\ MonitorEnqueueFault(p)
    \/ \E p \in DOMAIN procs : clock < MaxStreamLines /\ MonitorReadFault(p)
    \/ \E p \in DOMAIN procs, rc \in ExitCodes : WorkerExit(p, rc)
    \/ \E p \in DOMAIN procs : MonitorFinish(p)

SpecReader == Init /\ [][NextReader]_vars

\* The control surface: the requests of the parallel launcher together with
\* the listing, get-logs, the health probe and the error handlers.
NextSurface ==
    \/ Next
    \/ GetSessions
    \/ \E s \in Ids : drains < MaxDrains /\ GetSessionLogs(s)
    \/ HealthCheck
    \/ \E code \in ErrorCodes : ErrorHandler(code)

SpecSurface == Init /\ [][NextSurface]_vars

\* Sessions started one by one, their workers running run_automation.py.
NextWorker ==
    \/ \E s \in Ids, ok \in BOOLEAN : StartSession(s, ok)
    \/ \E p \in DOMAIN procs, config_found \in BOOLEAN, outcome \in BOOLEAN :
          WorkerRun(p, config_found, outcome)
    \/ \E p \in DOMAIN procs : MonitorFinish(p)

SpecWorker == Init /\ [][NextWorker]_vars

\* The three ways a worker is spawned: start, start-all and the sequential
\* runner, with the workers and their reader threads.
NextSpawn ==
    \/ \E s \in Ids, ok \in BOOLEAN : StartSession(s, ok)
    \/ \E fail \in SUBSET Ids : StartAllSessions(fail)
    \/ StartSequential
    \/ \E l \in DOMAIN loops : LoopCheck(l)
    \/ \E l \in DOMAIN loops, ok \in BOOLEAN : LoopGet(l, ok)
    \/ \E l \in DOMAIN loops : LoopWaitDone(l)
    \/ \E p \in DOMAIN procs, rc \in ExitCodes : WorkerExit(p, rc)
    \/ \E p \in DOMAIN procs : MonitorFinish(p)

SpecSpawn == Init /\ [][NextSpawn]_vars

\* The same, with every loop thread scheduled.
SpecSpawnFair ==
    /\ Init
    /\ [][NextSpawn]_vars
    /\ \A l \in 1..MaxLoops :
          /\ WF_vars(LoopCheck(l))
          /\ WF_vars(\E ok \in BOOLEAN : LoopGet(l, ok))
          /\ WF_vars(LoopWaitDone(l))

\* The session listing over any sessions.json, while sessions are started,
\* stopped and finish.
NextList ==
    \/ GetSessions
    \/ \E s \in Ids, ok \in BOOLEAN : StartSession(s, ok)
    \/ \E s \in Ids : StopSession(s)
    \/ StopSessionWaitDone
    \/ \E p \in DOMAIN procs, rc \in ExitCodes : WorkerExit(p, rc)
    \/ \E p \in DOMAIN procs : WorkerKilled(p)
    \/ \E p \in DOMAIN procs : MonitorFinish(p)

SpecList == InitList /\ [][NextList]_vars

\* Start-all and the listing over any registry: each of A and B valid, not
\* valid or malformed; workers end on their own.
NextStartAll ==
    \/ \E fail \in SUBSET Ids : StartAllSessions(fail)
    \/ GetSessions
    \/ \E p \in DOMAIN procs, rc \in ExitCodes : WorkerExit(p, rc)
    \/ \E p \in DOMAIN procs : MonitorFinish(p)

SpecStartAll == InitList /\ [][NextStartAll]_vars

\* ================================================================== claims
LiveProcs == {p \in DOMAIN procs : procs[p].alive}
LiveLoops == {l \in DOMAIN loops : loops[l].pc # "done"}
\* the session has a registered process that has not exited
LiveHandle(s) ==
    \E i \in 1..Len(session_processes) :
        session_processes[i].sid = s /\ procs[session_processes[i].pid].alive
Ascending(q) == \A i \in 1..Len(q) : \A j \in 1..Len(q) :
                    i < j => q[i].timestamp < q[j].timestamp

\* Sanity of the object bookkeeping: used slots form a prefix and hold no
\* object that could have been dropped.
SlotsCompact ==
    /\ \A p \in DOMAIN procs : \A q \in DOMAIN procs :
          (p < q /\ procs[q].sid # None) => procs[p].sid # None
    /\ Kept(procs, session_processes, stop_req, loops) = {p \in DOMAIN procs : procs[p].sid # None}
    /\ \A l \in DOMAIN loops : \A k \in DOMAIN loops :
          (l < k /\ loops[k].pc # "done") => loops[l].pc # "done"

\* C1: in every reachable state at most one live worker process exists per
\* session identifier.
C1_OneLiveWorkerPerSession ==
    \A p \in LiveProcs : \A q \in LiveProcs : procs[p].sid = procs[q].sid => p = q

\* C2: a start-session request for a session whose registered process has not
\* exited is answered with the AlreadyRunning error (400) and changes neither
\* the processes, the handle map, the state map nor the log channels.
C2_StartRunningRejected ==
    [][\A s \in Ids :
         (resp'.op = "start" /\ resp'.sid = s /\ LiveHandle(s))
            => /\ resp'.status = "error" /\ resp'.code = 400
               /\ procs' = procs
               /\ session_processes' = session_processes
               /\ session_status' = session_status
               /\ session_logs' = session_logs]_vars
\* a start request was just rejected for a session whose worker is alive
C2_Witness == resp.op = "start" /\ resp.code = 400 /\ LiveHandle(resp.sid)

\* C3: at every instant at most one worker process spawned by the sequential
\* runner is alive.
C3_OneSequentialWorkerAlive ==
    Cardinality({p \in LiveProcs : procs[p].by = "sequential"}) <= 1

\* C4: at most one sequential runner loop thread is alive at any time.
C4_AtMostOneLoop == Cardinality(LiveLoops) <= 1

\* C5: start-sequential while the runner flag is Active is answered with the
\* AlreadyActive error (400) and leaves the queue, the flag and the loop
\* threads unchanged.
C5_BeginWhileActiveRejected ==
    [][(resp'.op = "start_sequential" /\ sequential_execution_active)
          => /\ resp'.status = "error" /\ resp'.code = 400
             /\ sequential_queue' = sequential_queue
             /\ sequential_execution_active' = sequential_execution_active
             /\ loops' = loops]_vars
\* a start-sequential request was just rejected while entries were still queued
C5_Witness ==
    /\ resp.op = "start_sequential" /\ resp.code = 400
    /\ sequential_execution_active
    /\ LiveLoops # {}

\* C6: start-all reports len(started) + len(failed) == total_attempted == the
\* number of startable sessions of the snapshot; every failed session ends in
\* state error, every started one has a registered live process and state
\* running, and no other session's state or handle changes.
SeqToSet(q) == {q[i] : i \in 1..Len(q)}
StartableBefore ==
    {registry[i].user : i \in {j \in 1..Len(registry) :
        registry[j].valid /\ Get(session_status, registry[j].user, "stopped") # "running"}}
HandleOf(sp, s) == IF HasProc(sp, s) THEN ProcOf(sp, s) ELSE 0
C6_StartAllIsolation ==
    [][resp'.op = "start_all"
          => /\ Len(resp'.started) + Len(resp'.failed) = resp'.total
             /\ resp'.total = Cardinality(StartableBefore)
             /\ SeqToSet(resp'.started) \cup SeqToSet(resp'.failed) = StartableBefore
             /\ \A s \in SeqToSet(resp'.failed) : Get(session_status', s, None) = "error"
             /\ \A s \in SeqToSet(resp'.started) :
                   /\ Get(session_status', s, None) = "running"
                   /\ HasProc(session_processes', s)
                   /\ procs'[ProcOf(session_processes', s)].alive
                   /\ procs'[ProcOf(session_processes', s)].sid = s
             /\ \A s \in {registry[i].user : i \in 1..Len(registry)} \cup Ids :
                   s \notin SeqToSet(resp'.started) =>
                       HandleOf(session_processes', s) = HandleOf(session_processes, s)
             /\ \A s \in ({registry[i].user : i \in 1..Len(registry)} \cup Ids)
                         \ StartableBefore :
                   Get(session_status', s, None) = Get(session_status, s, None)]_vars
\* start-all over two startable sessions: one failed to spawn, the other runs
C6_Witness ==
    /\ resp.op = "start_all"
    /\ Len(resp.failed) = 1
    /\ Len(resp.started) = 1
    /\ session_status[resp.started[1]] = "running"
    /\ session_status[resp.failed[1]] = "error"

\* C7: the log channel of a session never holds more than 200 records.
C7_ChannelBounded ==
    \A s \in DOMAIN session_logs : Len(session_logs[s]) <= 200

\* C8: get-logs returns the newest (up to 100) records of the session's channel
\* and leaves the channel as it was, so that a second call returns the same.
C8_DrainNonDestructive ==
    [][\A s \in Ids :
         (resp'.op = "get_logs" /\ resp'.sid = s /\ s \in DOMAIN session_logs)
            => /\ resp'.logs = LastN(session_logs[s], 100)
               /\ session_logs' = session_logs]_vars

\* C9: in every reachable state a session's log channel holds its records in
\* the order in which they arrived from the worker.
C9_ChannelInArrivalOrder ==
    \A s \in DOMAIN session_logs : Ascending(session_logs[s])

\* C10: when the wait of stop-session expires (the worker is still alive when
\* the handler answers), the answer is success, the session's state is stopped
\* and its handle is removed from the live-process map.
C10_StopTimeoutIsSuccess ==
    [][(stop_req.op = "stop" /\ procs[stop_req.pid].alive /\ resp'.op = "stop")
          => /\ resp'.status = "success"
             /\ Get(session_status', stop_req.sid, None) = "stopped"
             /\ ~HasProc(session_processes', stop_req.sid)]_vars

\* C11: a stop-session request for a session that was never started, or whose
\* state is stopped, finished or error, is answered with success and leaves the
\* state map, the live-process map and the log channels as they were.
C11_StopIdleIsNoOp ==
    [][\A s \in Ids :
         (/\ stop_req.op = "none"
          /\ resp'.op = "stop" /\ resp'.sid = s
          /\ Get(session_status, s, "stopped") \in {"stopped", "finished", "error"})
            => /\ resp'.status = "success"
               /\ session_status' = session_status
               /\ session_processes' = session_processes
               /\ session_logs' = session_logs]_vars

\* the loop thread started as the t-th one has not returned / waits for a worker
ThreadAlive(t) == \E l \in DOMAIN loops : loops[l].tid = t /\ loops[l].pc # "done"
ThreadWaiting(t) == \E l \in DOMAIN loops : loops[l].tid = t /\ loops[l].pc = "wait"
\* stop-all has cancelled the runner while thread t sat in queue.get on an
\* empty queue: the flag is clear and the queue holds the poison pill only
CancelledIdle(t) ==
    /\ ~sequential_execution_active
    /\ sequential_queue = <<Sentinel>>
    /\ \E l \in DOMAIN loops : loops[l].tid = t /\ loops[l].pc = "get"

\* C12: a cancel issued while a loop thread is blocked on the empty queue makes
\* that thread return, and the thread spawns no worker after the cancel.
C12_CancelEndsIdleLoop ==
    \A t \in 1..MaxThreads :
        /\ CancelledIdle(t) ~> ~ThreadAlive(t)
        /\ [](CancelledIdle(t) => [](~ThreadWaiting(t)))

\* thread t is blocked in process.wait() on a worker that has not exited
WaitingOnLive(t) ==
    \E l \in DOMAIN loops :
        loops[l].tid = t /\ loops[l].pc = "wait" /\ procs[loops[l].pid].alive
\* the runner is cancelled while thread t has a worker in flight and the entry
\* e is queued behind it
CancelledBusy(t, e) ==
    /\ ~sequential_execution_active
    /\ WaitingOnLive(t)
    /\ \E i \in 1..Len(sequential_queue) : sequential_queue[i] = e
\* thread t has dequeued the entry e and started its worker
StartedBy(t, e) ==
    \E l \in DOMAIN loops :
        /\ loops[l].tid = t /\ loops[l].pc = "wait"
        /\ loops[l].sid = e.id /\ loops[l].batch = e.batch
QueuedEntries == {Entry(s, b) : s \in Ids, b \in 1..MaxThreads}

\* C13: a loop thread with a worker in flight stays in process.wait() until
\* that worker has exited, whatever is cancelled meanwhile; and once the runner
\* was cancelled with a worker in flight, that thread never starts any of the
\* entries that were queued behind the worker.
C13_CancelIsCooperative ==
    /\ [][\A t \in 1..MaxThreads : WaitingOnLive(t) => ThreadWaiting(t)']_vars
    /\ \A t \in 1..MaxThreads : \A e \in QueuedEntries :
          [](CancelledBusy(t, e) => [](~StartedBy(t, e)))
\* the runner was cancelled while the worker of A was in flight and B was
\* queued; the thread has returned and B is still in the queue, not started
C13_Witness ==
    /\ ~sequential_execution_active
    /\ threads = 1 /\ ~ThreadAlive(1)
    /\ sequential_queue = <<Entry("B", 1), Sentinel>>
    /\ Get(session_status, "A", None) \in {"stopped", "error", "finished"}
    /\ "B" \notin DOMAIN session_status

\* C14: every record of the session listing has can_start = (valid and state
\* not running) and can_stop = (state running), its state being the session's
\* entry of the state map ('stopped' when it has none); can_start and can_stop
\* are never both true.
C14_ListingFlags ==
    resp.op = "list" =>
        \A i \in 1..Len(resp.sessions) :
            LET rec == resp.sessions[i]
            IN /\ rec.status = Get(session_status, rec.id, "stopped")
               /\ rec.can_start = (rec.valid /\ rec.status # "running")
               /\ rec.can_stop = (rec.status = "running")
               /\ ~(rec.can_start /\ rec.can_stop)
\* a listing with a valid running session (can be stopped, not started) and a
\* valid session that is not running (can be started)
C14_Witness ==
    /\ resp.op = "list"
    /\ \E i \in 1..Len(resp.sessions) :
          resp.sessions[i].valid /\ resp.sessions[i].can_stop /\ ~resp.sessions[i].can_start
    /\ \E i \in 1..Len(resp.sessions) :
          resp.sessions[i].can_start /\ ~resp.sessions[i].can_stop

\* C15: the listing never fails, and with a malformed registry entry it still
\* has one record per entry: the real data of every well-formed entry, and for
\* a malformed one the placeholder (state error, not valid, neither startable
\* nor stoppable).
C15_MalformedEntryIsolated ==
    resp.op = "list" =>
        /\ resp.status = "success"
        /\ Len(resp.sessions) = Len(registry)
        /\ \A i \in 1..Len(registry) :
              LET rec == resp.sessions[i]
              IN IF registry[i].dict
                 THEN /\ rec.id = registry[i].user
                      /\ rec.valid = registry[i].valid
                      /\ rec.status = Get(session_status, registry[i].user, "stopped")
                 ELSE /\ rec.status = "error" /\ ~rec.valid
                      /\ ~rec.can_start /\ ~rec.can_stop

\* the sessions a stop-all request has to deal with: the keys of the
\* live-process map when it arrives, afterwards those it has stopped, those it
\* failed to stop and those it has still to visit
SidsOf(sp) == {sp[i].sid : i \in 1..Len(sp)}
StopAllScope ==
    IF stop_req.op = "stop_all"
    THEN SeqToSet(stop_req.stopped) \cup SeqToSet(stop_req.failed) \cup SidsOf(stop_req.pending)
    ELSE SidsOf(session_processes)
\* the same after a step, the answer counting once the request has returned
StopAllScopeAfter ==
    IF resp'.op = "stop_all"
    THEN SeqToSet(resp'.started) \cup SeqToSet(resp'.failed)
    ELSE SeqToSet(stop_req'.stopped) \cup SeqToSet(stop_req'.failed)
         \cup SidsOf(stop_req'.pending)
StopAllFailedAfter ==
    IF resp'.op = "stop_all" THEN SeqToSet(resp'.failed) ELSE SeqToSet(stop_req'.failed)

\* C16: from its arrival to its answer a stop-all request accounts for exactly
\* the sessions that were in the live-process map when it arrived, each of them
\* ending in its stopped or in its failed list; the session it is waiting for
\* has been sent the termination signal; a session whose process has not
\* exited when the wait ends goes to the failed list and the others are still
\* visited; and when the request returns the live-process map is empty.
C16_StopAllIsolation ==
    [][/\ (stop_req.op = "stop_all" \/ stop_req'.op = "stop_all" \/ resp'.op = "stop_all")
            => StopAllScopeAfter = StopAllScope
       /\ stop_req'.op = "stop_all"
            => LET h == Head(stop_req'.pending)
               IN procs'[h.pid].sig \/ ~procs'[h.pid].alive
       /\ (/\ stop_req.op = "stop_all"
           /\ procs[Head(stop_req.pending).pid].alive
           /\ resp'.op = "stop_all" \/ Len(stop_req'.pending) < Len(stop_req.pending))
            => Head(stop_req.pending).sid \in StopAllFailedAfter
       /\ resp'.op = "stop_all"
            => /\ resp'.status = "success"
               /\ session_processes' = <<>>]_vars
\* a stop-all that failed to stop one session, stopped another and left the
\* live-process map empty
C16_Witness ==
    /\ resp.op = "stop_all"
    /\ Len(resp.failed) = 1 /\ Len(resp.started) = 1
    /\ session_processes = <<>>
    /\ \E p \in DOMAIN procs : procs[p].alive /\ procs[p].sid = resp.failed[1]

\* the processes whose reader thread has not returned
Reading == {p \in DOMAIN procs : procs[p].sid # None /\ procs[p].reader = "reading"}
\* a worker of session s has exited and its reader has not yet run its epilogue
Unreaped(s) == \E p \in Reading : procs[p].sid = s /\ ~procs[p].alive
Reaped(s) ==
    /\ Get(session_status, s, None) \in {"finished", "error"}
    /\ ~HasProc(session_processes, s)

\* C17: the step in which a reader thread returns belongs to a worker that has
\* exited, sets that session's state to finished if the exit code is 0 and to
\* error otherwise, and leaves the session without a handle; no step makes a
\* session finished other than for an exited worker with exit code 0; and once
\* a worker has exited, its reader eventually does this.
C17_ReaderSetsExitState ==
    /\ [][Cardinality(Reading') < Cardinality(Reading)
            => \E p \in Reading :
                  /\ ~procs[p].alive
                  /\ session_status' =
                        Put(session_status, procs[p].sid,
                            IF procs[p].rc = 0 THEN "finished" ELSE "error")
                  /\ ~HasProc(session_processes', procs[p].sid)]_vars
    /\ [][\A s \in Ids :
            (/\ Get(session_status', s, None) = "finished"
             /\ Get(session_status, s, None) # "finished")
              => \E q \in Reading :
                    procs[q].sid = s /\ ~procs[q].alive /\ procs[q].rc = 0]_vars
    /\ \A s \in Ids : Unreaped(s) ~> Reaped(s)
\* both kinds of run have been reaped: A finished, B in error after a worker of
\* B exited non-zero, nothing left in the live-process map
C17_Witness ==
    /\ Get(session_status, "A", None) = "finished"
    /\ Get(session_status, "B", None) = "error"
    /\ session_processes = <<>>
    /\ Reading = {}
    /\ resp = NoResp

\* a loop thread has taken the session entry at the head of the queue
LoopDequeued ==
    /\ sequential_queue # <<>>
    /\ Head(sequential_queue) # Sentinel
    /\ sequential_queue' = Tail(sequential_queue)
WaitingLoops == {l \in DOMAIN loops : loops[l].pc = "wait"}

\* C18: a worker that cannot be spawned leaves its session in state error with
\* no handle registered for the attempt and no new process, and the failure
\* is answered, not raised: start-session answers an error (500), start-all
\* answers success with the session in its failed list, and the sequential
\* loop thread stays alive without a worker in hand.
C18_SpawnFailure ==
    /\ [][\A s \in Ids :
            (resp'.op = "start" /\ resp'.sid = s /\ ~AlreadyRunning(s))
              => \/ /\ resp'.status = "success"
                    /\ HasProc(session_processes', s)
                    /\ procs'[ProcOf(session_processes', s)].alive
                 \/ /\ resp'.status = "error" /\ resp'.code = 500
                    /\ Get(session_status', s, None) = "error"
                    /\ session_processes' = session_processes
                    /\ procs' = procs]_vars
    /\ [][\A s \in Ids :
            (resp'.op = "start_all" /\ s \in SeqToSet(resp'.failed))
              => /\ resp'.status = "success"
                 /\ Get(session_status', s, None) = "error"
                 /\ HandleOf(session_processes', s) = HandleOf(session_processes, s)
                 /\ \A p \in DOMAIN procs : procs'[p].sid = s => procs'[p] = procs[p]]_vars
    /\ [][(LoopDequeued /\ procs' = procs)
            => /\ Get(session_status', Head(sequential_queue).id, None) = "error"
               /\ ~HasProc(session_processes', Head(sequential_queue).id)
               /\ Cardinality(LiveLoops') = Cardinality(LiveLoops)
               /\ Cardinality(WaitingLoops') = Cardinality(WaitingLoops)]_vars
\* start-session has just failed to spawn the worker of a session that had no
\* handle: the answer is the error, the state is error, there is no handle
C18_Witness ==
    /\ resp.op = "start" /\ resp.code = 500
    /\ Get(session_status, resp.sid, None) = "error"
    /\ ~HasProc(session_processes, resp.sid)

\* a loop thread is between two entries and e is the next entry of the queue
NextEntry(e) ==
    /\ sequential_execution_active
    /\ sequential_queue # <<>> /\ Head(sequential_queue) = e
    /\ \E l \in DOMAIN loops : loops[l].pc \in {"check", "get"}
\* e has been dequeued and its worker started, or its own spawn has failed
Processed(e) ==
    \/ \E t \in 1..MaxThreads : StartedBy(t, e)
    \/ /\ \A i \in 1..Len(sequential_queue) : sequential_queue[i] # e
       /\ Get(session_status, e.id, None) = "error"

\* C19: when the spawn for a queue entry raises in the sequential loop, the
\* entry's session goes to state error and has no handle, the later entries
\* stay queued in their order, and the thread stays in its loop: it is back at
\* the loop condition, and (the runner not being cancelled) it goes on to
\* dequeue and start the next entry.
C19_LoopSurvivesBadEntry ==
    /\ [][(LoopDequeued /\ procs' = procs)
            => /\ Get(session_status', Head(sequential_queue).id, None) = "error"
               /\ ~HasProc(session_processes', Head(sequential_queue).id)
               /\ \E l \in DOMAIN loops :
                     /\ loops[l].pc = "get"
                     /\ loops' = [loops EXCEPT ![l].pc = "check"]]_vars
    /\ \A e \in QueuedEntries : NextEntry(e) ~> Processed(e)
\* the spawn for A failed (A is in error and no process of A exists) and the
\* same thread has gone on to start B, the entry queued behind A
C19_Witness ==
    /\ threads = 1
    /\ StartedBy(1, Entry("B", 1))
    /\ sequential_queue = <<>>
    /\ Get(session_status, "A", None) = "error"
    /\ \A p \in DOMAIN procs : procs[p].sid # "A"
    /\ Cardinality({p \in DOMAIN procs : procs[p].sid # None}) = 1

\* C20: a start-sequential request arriving with the flag clear and at least
\* one startable session is accepted; whatever the queue held (entries left by
\* a cancelled run, a poison pill), afterwards it holds exactly one fresh
\* entry per startable session, in listing order; the flag is set; and exactly
\* one loop thread has been added, the existing ones being untouched.
C20_BeginClearsStaleQueue ==
    [][(/\ resp'.op = "start_sequential"
        /\ ~sequential_execution_active
        /\ StartableSeq(get_all_sessions) # <<>>)
          => /\ resp'.status = "success"
             /\ resp'.started = StartableSeq(get_all_sessions)
             /\ Len(sequential_queue') = Len(resp'.started)
             /\ \A k \in 1..Len(sequential_queue') :
                   sequential_queue'[k] = Entry(resp'.started[k], threads')
             /\ sequential_execution_active'
             /\ threads' = threads + 1
             /\ \E l \in DOMAIN loops :
                   loops'[l].tid = threads + 1 /\ loops'[l].pc = "check"
             /\ Cardinality(LiveLoops') = Cardinality(LiveLoops) + 1
             /\ \A l \in LiveLoops : loops'[l] = loops[l]]_vars
\* a second run has just been started after a cancelled one: the queue holds
\* the entries of the second request only, one loop thread is alive
C20_Witness ==
    /\ resp.op = "start_sequential" /\ resp.status = "success"
    /\ threads = 2
    /\ sequential_queue = <<Entry("A", 2), Entry("B", 2)>>
    /\ sequential_execution_active
    /\ Cardinality(LiveLoops) = 1

\* position of a session in the listing a start-sequential request enqueues from
ListIndex(s) ==
    CHOOSE i \in 1..Len(get_all_sessions) : get_all_sessions[i].id = s

\* C21: the sequential runner consumes the queue first in, first out: the
\* queue always holds the not yet started entries of one request in listing
\* order; a loop thread starts an entry only by taking it from the head of the
\* queue; and an entry that has left the queue never comes back, so each id is
\* started at most once per request.
C21_SequentialFifo ==
    /\ [](\A i, j \in 1..Len(sequential_queue) :
             (i < j /\ sequential_queue[i] # Sentinel /\ sequential_queue[j] # Sentinel)
                => /\ sequential_queue[i].batch = sequential_queue[j].batch
                   /\ ListIndex(sequential_queue[i].id) < ListIndex(sequential_queue[j].id))
    /\ [][\A e \in QueuedEntries : \A t \in 1..MaxThreads :
             (StartedBy(t, e)' /\ ~StartedBy(t, e))
                => /\ sequential_queue # <<>>
                   /\ Head(sequential_queue) = e
                   /\ sequential_queue' = Tail(sequential_queue)]_vars
    /\ [][\A e \in QueuedEntries :
             (e.batch <= threads /\ e \notin SeqToSet(sequential_queue))
                => e \notin SeqToSet(sequential_queue')]_vars
\* the run enqueued as A, B has started A, seen it end, and is now waiting on
\* B with nothing left in the queue
C21_Witness ==
    /\ StartedBy(1, Entry("B", 1))
    /\ threads = 1
    /\ sequential_queue = <<>>
    /\ Get(session_status, "A", None) \in {"finished", "error"}
    /\ sequential_execution_active

\* C22: start-all spawns a worker for every session that is valid and not
\* running (unless its spawn fails) and for no other; the listing taken right
\* after shows each of them running and stoppable, and shows every session
\* that is not valid as not startable and without a process.
C22_StartAllSkipsInvalid ==
    [][resp'.op = "start_all"
         => /\ Len(get_all_sessions') = Len(get_all_sessions)
            /\ \A i \in 1..Len(get_all_sessions) :
                  LET before == get_all_sessions[i]
                      after == get_all_sessions'[i]
                  IN /\ after.id = before.id
                     /\ ~before.valid
                          => /\ ~after.can_start
                             /\ ~HasProc(session_processes', after.id)
                             /\ after.id \notin SeqToSet(resp'.started)
                             /\ after.status = before.status
                     /\ (before.valid /\ before.status # "running"
                            /\ after.id \notin SeqToSet(resp'.failed))
                          => /\ after.id \in SeqToSet(resp'.started)
                             /\ HasProc(session_processes', after.id)
                             /\ after.status = "running"
                             /\ after.can_stop
                             /\ ~after.can_start]_vars
\* A valid, B not valid, nothing running before: start-all has started A
\* only, and the listing shows A running and B neither startable nor tracked
C22_Witness ==
    /\ resp.op = "start_all" /\ resp.started = <<"A">> /\ resp.failed = <<>>
    /\ registry[1].valid /\ registry[2].dict /\ ~registry[2].valid
    /\ get_all_sessions[1].status = "running" /\ get_all_sessions[1].can_stop
    /\ ~get_all_sessions[2].can_start
    /\ ~HasProc(session_processes, "B")
    /\ Cardinality(LiveProcs) = 1

\* C23: a subscription that has just been opened has sent nothing: the
\* records already in the channel when it opened are not replayed.
C23_StreamNoReplay ==
    [][(~stream.open /\ stream'.open) => stream'.logs = <<>>]_vars

\* C28: an iteration of the stream that sends a heartbeat delivers no record,
\* and an open subscription stays open.
C28_HeartbeatOnlyWhenQuiet ==
    /\ [][stream'.heartbeat => stream'.logs = <<>>]_vars
    /\ [][stream.open => stream'.open]_vars

\* C24: whatever happens to the reader while it handles a line, the channel
\* shows it: the step leaves as newest record of the session either the line
\* just read or a diagnostic, and with a diagnostic the state is error.
C24_ReaderFaultReported ==
    [][clock' = clock + 1
         => \E s \in DOMAIN session_logs' :
               LET q == session_logs'[s]
               IN /\ q # <<>>
                  /\ q[Len(q)].timestamp = clock + 1
                  /\ q[Len(q)].message[2] = 0
                       => Get(session_status', s, None) = "error"]_vars

\* C25: a session without an entry in the state map is reported as stopped,
\* by the listing and by get-logs alike.
C25_AbsentMeansStopped ==
    /\ [](\A i \in 1..Len(get_all_sessions) :
             get_all_sessions[i].id \notin DOMAIN session_status
                => get_all_sessions[i].status = "stopped")
    /\ [][(resp'.op = "get_logs" /\ resp'.sid \notin DOMAIN session_status')
             => resp'.session_status = "stopped"]_vars

\* C26: every response of the control surface carries status success or
\* error.
C26_StatusSuccessOrError ==
    resp.op # "none" => resp.status \in {"success", "error"}

\* C27: the worker exits with code 0 when its configuration is found and the
\* automation run succeeds, and with a non-zero code otherwise.
C27_WorkerExitCode ==
    [][\A p \in DOMAIN procs : \A config_found \in BOOLEAN, outcome \in BOOLEAN :
          WorkerRun(p, config_found, outcome)
             => (procs'[p].rc = 0 <=> (config_found /\ outcome))]_vars

\* C29: when the reader of a process that is no longer the registered process
\* of its session finishes while a newer live process of that session is
\* registered, the newer process stays registered and the session stays
\* running.
C29_LateReaderHarmless ==
    [][\A p \in DOMAIN procs :
          LET s == procs[p].sid
          IN (/\ MonitorFinish(p)
              /\ HasProc(session_processes, s)
              /\ ProcOf(session_processes, s) # p
              /\ Poll(ProcOf(session_processes, s))
              /\ Get(session_status, s, None) = "running")
                => /\ HasProc(session_processes', s)
                   /\ Get(session_status', s, None) = "running"]_vars

\* C30: every spawned worker that has not exited is registered in
\* session_processes under its session id, and that session is running.
C30_LiveWorkerRegistered ==
    \A p \in DOMAIN procs :
        (procs[p].sid # None /\ procs[p].alive)
           => /\ HasProc(session_processes, procs[p].sid)
              /\ ProcOf(session_processes, procs[p].sid) = p
              /\ Get(session_status, procs[p].sid, None) = "running"

\* C31: when a stop-all request returns, no session is in state running;
\* every session tracked when the request arrived is in its stopped list, with
\* state stopped, or in its failed list; and a handle registered by a start
\* request while the stop-all was waiting is still registered.
C31_StopAllLeavesNothingRunning ==
    /\ [][resp'.op = "stop_all"
             => \A s \in DOMAIN session_status' : session_status'[s] # "running"]_vars
    /\ [][resp'.op = "stop_all"
             => /\ StopAllScope = SeqToSet(resp'.started) \cup SeqToSet(resp'.failed)
                /\ \A s \in SeqToSet(resp'.started) :
                      Get(session_status', s, None) = "stopped"]_vars
    /\ [][resp'.op = "stop_all"
             => \A s \in SidsOf(session_processes) \ StopAllScope :
                   HasProc(session_processes', s)]_vars

\* C32: a session that a stop request has terminated and set to stopped stays
\* stopped when the reader of the terminated process observes its exit.
C32_StoppedStaysStopped ==
    [][\A p \in DOMAIN procs :
          LET s == procs[p].sid
          IN (/\ MonitorFinish(p)
              /\ procs[p].rc = -15
              /\ Get(session_status, s, None) = "stopped")
                => Get(session_status', s, None) = "stopped"]_vars

\* the live workers of session s
WorkersOf(s) == {p \in DOMAIN procs : procs[p].sid = s /\ procs[p].alive}

\* C33: a step that spawns a worker for a session spawns it for a session the
\* listing showed as startable: in the registry, valid and not running.
C33_SpawnOnlyStartable ==
    [][\A s \in Ids :
          Cardinality(WorkersOf(s)') > Cardinality(WorkersOf(s))
             => \E i \in 1..Len(get_all_sessions) :
                   /\ get_all_sessions[i].id = s
                   /\ get_all_sessions[i].can_start]_vars

\* a sequential run that was not cancelled has started all its entries and
\* its last worker has exited and been reaped
RunCompleted ==
    /\ threads >= 1
    /\ sequential_execution_active
    /\ sequential_queue = <<>>
    /\ WaitingLoops = {}
    /\ LiveProcs = {}

\* C34: once an uncancelled sequential run has completed, the runner is idle
\* again: a start-sequential request that then arrives with a startable
\* session is accepted.
C34_RunnerReturnsToIdle ==
    [][(/\ RunCompleted
        /\ resp'.op = "start_sequential"
        /\ StartableSeq(get_all_sessions) # <<>>)
          => resp'.status = "success"]_vars

\* C35: reading the channel through a stream takes nothing away from
\* get-logs: the answer to a get-logs request contains the records that the
\* last iteration of an open stream of that session has delivered.
C35_ReadersDoNotInterfere ==
    [][(resp'.op = "get_logs" /\ stream.open /\ resp'.sid = stream.sid)
         => \A i \in 1..Len(stream.logs) : stream.logs[i] \in SeqToSet(resp'.logs)]_vars

\* C36: the answer to get-logs for a session holds only lines that a worker
\* of that session has produced.
C36_LogsOfOwnSessionOnly ==
    [][resp'.op = "get_logs"
         => \A i \in 1..Len(resp'.logs) : resp'.logs[i].session_id = resp'.sid]_vars
====
